---- MODULE Spec2Model ----
(***************************************************************************)
(* CommandDataOption: the Serialize / Deserialize pair of                  *)
(* model/src/application/interaction/application_command/option.rs.        *)
(*                                                                         *)
(* Wire side.  A wire value (serde's buffered content) is a record         *)
(*   [t |-> "bool" | "int" | "float" | "str" | "seq" | "type" | "null",    *)
(*    v |-> payload].                                                      *)
(* A wire map is a sequence of fields [key |-> k, val |-> wire value], in  *)
(* the order the MapAccess hands them out.  Text is a sequence of          *)
(* one-character strings, so that parsing and rendering of decimal text is *)
(* computed, not assumed.  An f64 is an integer count of halves (5.0 is    *)
(* 10, 2.5 is 5); every i64 of the model is far below 2^53, where          *)
(* `i as f64` is exact.                                                    *)
(*                                                                         *)
(* Memory side.  A CommandDataOption is [focused, name, value]; a          *)
(* CommandOptionValue is Variant(variant, payload).                 *)
(***************************************************************************)
EXTENDS Integers, Sequences, FiniteSets, TLC

\* Longest digit text drawn as a wire string.
MaxStrLen == 2
\* Longest `options` sequence drawn.
MaxOptions == 2
\* Deepest nesting of sub-grouping payloads drawn below the top level.
MaxDepth == 2

\* A wire value: its shape and its payload.
Wire(t, v) == [t |-> t, v |-> v]

\* A CommandOptionValue: the variant and its payload.
Variant(tag, pay) == [tag |-> tag, pay |-> pay]

None == <<>>
Some(x) == <<x>>

Ok(x) == [k |-> "Ok", val |-> x]
Err(e) == [k |-> "Err", val |-> e]

\* serde::de::Error constructors used by visit_map.
duplicate_field(f) == [e |-> "duplicate_field", f |-> f, u |-> None]
missing_field(f) == [e |-> "missing_field", f |-> f, u |-> None]
invalid_type(unexp, exp) == [e |-> "invalid_type", f |-> exp, u |-> Some(unexp)]
\* The error of a field's own Deserialize impl (String, CommandOptionType,
\* untagged ValueEnvelope, Vec, Option<bool>) on a value it cannot read.
field_value_error(key) == [e |-> "field_value", f |-> key, u |-> None]

(***************************************************************************)
(* Decimal text.                                                           *)
(***************************************************************************)
DigitChars == <<"0", "1", "2", "3", "4", "5", "6", "7", "8", "9">>

IsDigit(c) == \E d \in 1..10 : DigitChars[d] = c

DigitValue(c) == (CHOOSE d \in 1..10 : DigitChars[d] = c) - 1

RECURSIVE DecimalValue(_)
DecimalValue(s) ==
    IF s = <<>> THEN 0
    ELSE 10 * DecimalValue(SubSeq(s, 1, Len(s) - 1)) + DigitValue(s[Len(s)])

\* u64::to_string: canonical decimal, no sign, no leading zero.
RECURSIVE to_string(_)
to_string(n) ==
    IF n < 10 THEN <<DigitChars[n + 1]>>
    ELSE to_string(n \div 10) \o <<DigitChars[(n % 10) + 1]>>

\* Id<GenericMarker> read from wire text: the text is a decimal u64 token
\* (leading zeros allowed) naming a non-zero identifier.  Texts of the model
\* are at most MaxStrLen digits, far below 2^64.
IdFromStr(s) ==
    IF s # <<>> /\ (\A i \in 1..Len(s) : IsDigit(s[i])) /\ DecimalValue(s) >= 1
    THEN Some(DecimalValue(s))
    ELSE None

\* Id rendered to the wire: its canonical decimal text.
IdToWire(id) == Wire("str", to_string(id))

(***************************************************************************)
(* The closed discriminant enumeration and the variants.                   *)
(***************************************************************************)
CommandOptionType ==
    {"Attachment", "Boolean", "Channel", "Integer", "Mentionable", "Number",
     "Role", "String", "SubCommand", "SubCommandGroup", "User"}

SubKinds == {"SubCommand", "SubCommandGroup"}

IdKinds == {"Attachment", "Channel", "Mentionable", "Role", "User"}

\* CommandOptionValue::kind
kind(value) == value.tag

\* The five recognized keys of the field identifier.
Fields == {"name", "type", "value", "options", "focused"}

(***************************************************************************)
(* ValueEnvelope: the untagged classifier, variants tried in declaration   *)
(* order Boolean, Integer, Number, Id, String; content that matches none   *)
(* (null, a sequence) is an error of the field.  Every wire integer of the *)
(* model fits an i64, so Integer takes it before Number could.             *)
(***************************************************************************)
ValueEnvelope(c) ==
    IF c.t = "bool" THEN Some([t |-> "Boolean", v |-> c.v])
    ELSE IF c.t = "int" THEN Some([t |-> "Integer", v |-> c.v])
    ELSE IF c.t = "float" THEN Some([t |-> "Number", v |-> c.v])
    ELSE IF c.t = "str" /\ IdFromStr(c.v) # None
        THEN Some([t |-> "Id", v |-> IdFromStr(c.v)[1]])
    ELSE IF c.t = "str" THEN Some([t |-> "String", v |-> c.v])
    ELSE None

as_unexpected(val) ==
    CASE val.t = "Boolean" -> [t |-> "Bool", v |-> val.v]
      [] val.t = "Integer" -> [t |-> "Signed", v |-> val.v]
      [] val.t = "Number" -> [t |-> "Float", v |-> val.v]
      [] val.t = "Id" -> [t |-> "Other", v |-> "ID"]
      [] val.t = "String" -> [t |-> "Str", v |-> val.v]

(***************************************************************************)
(* visit_map: the dispatch on the discriminant.                            *)
(***************************************************************************)
IdArm(val, tag, exp) ==
    IF val.t = "Id" THEN Ok(Variant(tag, val.v))
    ELSE Err(invalid_type(as_unexpected(val), exp))

BooleanArm(val) ==
    IF val.t = "Boolean" THEN Ok(Variant("Boolean", val.v))
    ELSE Err(invalid_type(as_unexpected(val), "boolean"))

IntegerArm(val) ==
    IF val.t = "Integer" THEN Ok(Variant("Integer", val.v))
    ELSE Err(invalid_type(as_unexpected(val), "integer"))

NumberArm_NoWiden(val) ==
    IF val.t = "Number" THEN Ok(Variant("Number", val.v))
    ELSE Err(invalid_type(as_unexpected(val), "number"))

\* `i as f64`: i whole units are 2 * i halves.
NumberArm(val) ==
    IF val.t = "Integer" THEN Ok(Variant("Number", 2 * val.v))
    ELSE IF val.t = "Number" THEN Ok(Variant("Number", val.v))
    ELSE Err(invalid_type(as_unexpected(val), "number"))

StringArm(val) ==
    IF val.t = "String" THEN Ok(Variant("String", val.v))
    ELSE IF val.t = "Id" THEN Ok(Variant("String", to_string(val.v)))
    ELSE Err(invalid_type(as_unexpected(val), "string"))

ScalarArm(kd, val) ==
    CASE kd = "Attachment" -> IdArm(val, "Attachment", "attachment id")
      [] kd = "Boolean" -> BooleanArm(val)
      [] kd = "Channel" -> IdArm(val, "Channel", "channel id")
      [] kd = "Integer" -> IntegerArm(val)
      [] kd = "Mentionable" -> IdArm(val, "Mentionable", "mentionable id")
      [] kd = "Number" -> NumberArm(val)
      [] kd = "Role" -> IdArm(val, "Role", "role id")
      [] kd = "String" -> StringArm(val)
      [] kd = "User" -> IdArm(val, "User", "user id")

MatchKind(kd, value_opt, options) ==
    IF kd \in SubKinds THEN Ok(Variant(kd, options))
    ELSE IF value_opt = None THEN Err(missing_field("value"))
    ELSE ScalarArm(kd, value_opt[1])

\* Option<bool>::unwrap_or_default
unwrap_or_default_True(focused) == IF focused = None THEN TRUE ELSE focused[1]

unwrap_or_default(focused) == IF focused = None THEN FALSE ELSE focused[1]

\* The locals of visit_map before the first key.
Locals0 ==
    [name_opt |-> None, kind_opt |-> None, options |-> <<>>,
     value_opt |-> None, focused |-> None]

\* After the loop: the two missing-field checks, the dispatch, the result.
Finish_TypeFirst(a) ==
    IF a.kind_opt = None THEN Err(missing_field("type"))
    ELSE IF a.name_opt = None THEN Err(missing_field("name"))
    ELSE LET value == MatchKind(a.kind_opt[1], a.value_opt, a.options)
         IN IF value.k = "Err" THEN value
            ELSE Ok([focused |-> unwrap_or_default(a.focused),
                     name |-> a.name_opt[1], value |-> value.val])

Finish(a) ==
    IF a.name_opt = None THEN Err(missing_field("name"))
    ELSE IF a.kind_opt = None THEN Err(missing_field("type"))
    ELSE LET value == MatchKind(a.kind_opt[1], a.value_opt, a.options)
         IN IF value.k = "Err" THEN value
            ELSE Ok([focused |-> unwrap_or_default(a.focused),
                     name |-> a.name_opt[1], value |-> value.val])

(***************************************************************************)
(* visit_map: one turn of the key loop.                                    *)
(***************************************************************************)
RECURSIVE visit_map(_)

\* Vec<CommandDataOption>: every element through this same decoder, in wire
\* order; the first element that fails fails the field.
DeOptions_Reversed(c) ==
    IF c.t # "seq" THEN Err(field_value_error("options"))
    ELSE LET n == Len(c.v)
             rs == [i \in 1..n |-> visit_map(c.v[i])]
             bad == {i \in 1..n : rs[i].k = "Err"}
         IN IF bad # {} THEN rs[CHOOSE i \in bad : \A j \in bad : i <= j]
            ELSE Ok([i \in 1..n |-> rs[n + 1 - i].val])

DeOptions(c) ==
    IF c.t # "seq" THEN Err(field_value_error("options"))
    ELSE LET n == Len(c.v)
             rs == [i \in 1..n |-> visit_map(c.v[i])]
             bad == {i \in 1..n : rs[i].k = "Err"}
         IN IF bad # {} THEN rs[CHOOSE i \in bad : \A j \in bad : i <= j]
            ELSE Ok([i \in 1..n |-> rs[i].val])

\* next_key fails on a key that is no field identifier: the value is read as
\* IgnoredAny and the loop continues with the locals as they were.
UnknownKey_Rejected(a, key) == Err([e |-> "unknown_field", f |-> key, u |-> None])

UnknownKey(a, key) == Ok(a)

VisitName(a, val) ==
    IF a.name_opt # None THEN Err(duplicate_field("name"))
    ELSE IF val.t # "str" THEN Err(field_value_error("name"))
    ELSE Ok([a EXCEPT !.name_opt = Some(val.v)])

VisitType(a, val) ==
    IF a.kind_opt # None THEN Err(duplicate_field("type"))
    ELSE IF val.t # "type" THEN Err(field_value_error("type"))
    ELSE Ok([a EXCEPT !.kind_opt = Some(val.v)])

VisitValue(a, val) ==
    IF a.value_opt # None THEN Err(duplicate_field("value"))
    ELSE IF ValueEnvelope(val) = None THEN Err(field_value_error("value"))
    ELSE Ok([a EXCEPT !.value_opt = ValueEnvelope(val)])

VisitOptions(a, val) ==
    IF a.options # <<>> THEN Err(duplicate_field("options"))
    ELSE LET r == DeOptions(val)
         IN IF r.k = "Err" THEN r ELSE Ok([a EXCEPT !.options = r.val])

\* focused is an Option<bool> read as an Option<bool>: null leaves it None.
VisitFocused(a, val) ==
    IF a.focused # None THEN Err(duplicate_field("focused"))
    ELSE IF val.t = "null" THEN Ok([a EXCEPT !.focused = None])
    ELSE IF val.t # "bool" THEN Err(field_value_error("focused"))
    ELSE Ok([a EXCEPT !.focused = Some(val.v)])

VisitField(a, key, val) ==
    CASE key = "name" -> VisitName(a, val)
      [] key = "type" -> VisitType(a, val)
      [] key = "value" -> VisitValue(a, val)
      [] key = "options" -> VisitOptions(a, val)
      [] key = "focused" -> VisitFocused(a, val)
      [] OTHER -> UnknownKey(a, key)

RECURSIVE ScanFields(_, _)
ScanFields(a, fields) ==
    IF fields = <<>> THEN Finish(a)
    ELSE LET r == VisitField(a, Head(fields).key, Head(fields).val)
         IN IF r.k = "Err" THEN r ELSE ScanFields(r.val, Tail(fields))

visit_map(fields) == ScanFields(Locals0, fields)

(***************************************************************************)
(* serialize.                                                              *)
(***************************************************************************)
RECURSIVE serialize(_)

subcommand_is_empty(value) == value.tag \in SubKinds /\ value.pay = <<>>

len_NoFocused(self) ==
    2 + (IF ~subcommand_is_empty(self.value) THEN 1 ELSE 0)

len(self) ==
    2 + (IF ~subcommand_is_empty(self.value) THEN 1 ELSE 0)
      + (IF self.focused THEN 1 ELSE 0)

FocusedField_Always(self) ==
    <<[key |-> "focused", val |-> [t |-> "bool", v |-> self.focused]]>>

FocusedField(self) ==
    IF self.focused
    THEN <<[key |-> "focused", val |-> [t |-> "bool", v |-> self.focused]]>>
    ELSE <<>>

ScalarWire(value) ==
    CASE value.tag \in IdKinds -> IdToWire(value.pay)
      [] value.tag = "Boolean" -> [t |-> "bool", v |-> value.pay]
      [] value.tag = "Integer" -> [t |-> "int", v |-> value.pay]
      [] value.tag = "Number" -> [t |-> "float", v |-> value.pay]
      [] value.tag = "String" -> [t |-> "str", v |-> value.pay]

ValueField(value) ==
    IF value.tag \in SubKinds
    THEN IF ~subcommand_is_empty(value)
         THEN <<[key |-> "options",
                 val |-> [t |-> "seq",
                          v |-> [i \in 1..Len(value.pay) |->
                                    serialize(value.pay[i]).fields]]]>>
         ELSE <<>>
    ELSE <<[key |-> "value", val |-> ScalarWire(value)]>>

serialize(self) ==
    [len |-> len(self),
     fields |-> FocusedField(self)
                \o <<[key |-> "name", val |-> [t |-> "str", v |-> self.name]]>>
                \o <<[key |-> "type", val |-> [t |-> "type", v |-> kind(self.value)]]>>
                \o ValueField(self.value)]

(***************************************************************************)
(* The inputs drawn.                                                       *)
(***************************************************************************)
DigitAlphabet == {"0", "7"}

\* Every digit text of at most MaxStrLen characters (the empty text too),
\* and one text that is no number.
Texts == UNION {[1..n -> DigitAlphabet] : n \in 0..MaxStrLen} \cup {<<"x">>}

Names == {<<"x">>, <<"7">>}

IntVals == {5, -3}

\* 5.0 and 2.5, in halves.
FloatVals == {10, 5}

IdVals == {7, 70}

Null == Wire("null", <<>>)

Ignored == Wire("ignored", <<>>)

UnknownKeys == {"description"}

Keys == Fields \cup UnknownKeys

Field(key, val) == [key |-> key, val |-> val]

\* In-memory values.
ScalarValues ==
    {Variant(k, i) : k \in IdKinds, i \in IdVals}
    \cup {Variant("Boolean", b) : b \in BOOLEAN}
    \cup {Variant("Integer", i) : i \in IntVals}
    \cup {Variant("Number", f) : f \in FloatVals}
    \cup {Variant("String", s) : s \in Texts}

Leaves ==
    {[focused |-> FALSE, name |-> <<"x">>, value |-> Variant("Integer", 5)],
     [focused |-> TRUE, name |-> <<"7">>, value |-> Variant("String", <<"x">>)]}

LeafSeqs == UNION {[1..n -> Leaves] : n \in 0..MaxOptions}

NestedSub(inner) ==
    [focused |-> FALSE, name |-> <<"x">>,
     value |-> Variant("SubCommand", inner)]

\* Payload sequences nested at most d levels deep: the sequences of leaves,
\* and those whose last element is a sub-command with a payload of depth
\* d - 1.
RECURSIVE OptionSeqs(_)
OptionSeqs(d) ==
    IF d <= 1 THEN LeafSeqs
    ELSE LeafSeqs
         \cup {[s EXCEPT ![Len(s)] = NestedSub(inner)] :
                 s \in LeafSeqs \ {<<>>}, inner \in OptionSeqs(d - 1)}

Payloads == OptionSeqs(MaxDepth)

Values ==
    {[focused |-> f, name |-> n, value |-> pv] :
        f \in BOOLEAN, n \in Names, pv \in ScalarValues}
    \cup {[focused |-> f, name |-> n, value |-> Variant(k, s)] :
            f \in BOOLEAN, n \in Names, k \in SubKinds, s \in Payloads}

\* Wire values.
Str(s) == Wire("str", s)

WireSeq(payload) ==
    [t |-> "seq", v |-> [i \in 1..Len(payload) |-> serialize(payload[i]).fields]]

NameWires == {Str(n) : n \in Names} \cup {Null}

TypeWires == {[t |-> "type", v |-> k] : k \in CommandOptionType} \cup {Null}

ValueWires ==
    {[t |-> "bool", v |-> b] : b \in BOOLEAN}
    \cup {[t |-> "int", v |-> i] : i \in IntVals}
    \cup {[t |-> "float", v |-> f] : f \in FloatVals}
    \cup {Str(s) : s \in Texts}
    \cup {Null}

FocusedWires == {[t |-> "bool", v |-> b] : b \in BOOLEAN} \cup {Null}

UnknownWires == {Null, Str(<<"x">>)}

\* A nested element in an order no encoder emits, with an unknown key, and
\* one that lacks its type.
OddLeafWire ==
    <<Field("type", [t |-> "type", v |-> "Boolean"]), Field("description", Null),
      Field("value", [t |-> "bool", v |-> TRUE]), Field("name", Str(<<"7">>))>>

BadLeafWire == <<Field("name", Str(<<"x">>))>>

LeafWire == serialize(CHOOSE l \in Leaves : ~l.focused).fields

OptionsWires ==
    {[t |-> "seq", v |-> <<>>], [t |-> "seq", v |-> <<LeafWire>>],
     [t |-> "seq", v |-> <<OddLeafWire, LeafWire>>],
     [t |-> "seq", v |-> <<LeafWire, BadLeafWire>>], Null}

NestedOptionsWires ==
    {WireSeq(s) : s \in Payloads}
    \cup {[t |-> "seq", v |-> <<OddLeafWire, LeafWire>>],
          [t |-> "seq", v |-> <<LeafWire, BadLeafWire>>]}

NestedValueWires == {Str(<<"0", "7">>), [t |-> "bool", v |-> TRUE]}

NestedTypeWires == {[t |-> "type", v |-> k] : k \in SubKinds \cup {"String"}}

(***************************************************************************)
(* The state.                                                              *)
(*   name_opt, kind_opt, options, value_opt, focused: visit_map's locals.  *)
(*   scanned: per key, the wire value of the last field of that key the    *)
(*       loop read without failing (an unknown key's value is discarded).  *)
(*   repeated: the keys the map handed out again after such a field.       *)
(*   pc: "scan" in the key loop, "loop_err" after an Err returned inside   *)
(*       the loop, "end_err" after an Err returned after it, "value" with  *)
(*       a CommandDataOption in memory, "wire" after serialize, "end"      *)
(*       after the emitted fields were decoded again.                      *)
(*   result: what deserialize returned; state: what serialize declared and *)
(*   emitted; redecoded: deserialize of the emitted fields.                *)
(***************************************************************************)
VARIABLES name_opt, kind_opt, options, value_opt, focused,
          scanned, repeated, pc, result, state, redecoded

locals == <<name_opt, kind_opt, options, value_opt, focused>>

vars == <<name_opt, kind_opt, options, value_opt, focused,
          scanned, repeated, pc, result, state, redecoded>>

Locals ==
    [name_opt |-> name_opt, kind_opt |-> kind_opt, options |-> options,
     value_opt |-> value_opt, focused |-> focused]

SetLocals(a) ==
    /\ name_opt' = a.name_opt
    /\ kind_opt' = a.kind_opt
    /\ options' = a.options
    /\ value_opt' = a.value_opt
    /\ focused' = a.focused

InitLocals ==
    /\ name_opt = None
    /\ kind_opt = None
    /\ options = <<>>
    /\ value_opt = None
    /\ focused = None
    /\ scanned = [k \in Keys |-> None]
    /\ repeated = {}
    /\ state = None
    /\ redecoded = None

\* deserialize is called on a map.
Init ==
    /\ InitLocals
    /\ pc = "scan"
    /\ result = None

\* A CommandDataOption built in memory.
InitValue ==
    /\ InitLocals
    /\ pc = "value"
    /\ result \in {Some(Ok(v)) : v \in Values}

\* One turn of the loop: the map hands out `key` with `val`.
Visit(key, val) ==
    /\ pc = "scan"
    /\ repeated' = IF scanned[key] # None THEN repeated \cup {key} ELSE repeated
    /\ LET r == VisitField(Locals, key, val)
       IN IF r.k = "Err"
          THEN /\ pc' = "loop_err"
               /\ result' = Some(r)
               /\ UNCHANGED <<locals, scanned>>
          ELSE /\ SetLocals(r.val)
               /\ scanned' = [scanned EXCEPT
                                ![key] = Some(IF key \in Fields THEN val ELSE Ignored)]
               /\ UNCHANGED <<pc, result>>
    /\ UNCHANGED <<state, redecoded>>

NameKey == \E val \in NameWires : Visit("name", val)

TypeKey == \E val \in TypeWires : Visit("type", val)

ValueKey == \E val \in ValueWires : Visit("value", val)

OptionsKey == \E val \in OptionsWires : Visit("options", val)

FocusedKey == \E val \in FocusedWires : Visit("focused", val)

OtherKey == \E key \in UnknownKeys, val \in UnknownWires : Visit(key, val)

NestedNameKey == Visit("name", Str(<<"x">>))

NestedTypeKey == \E val \in NestedTypeWires : Visit("type", val)

NestedValueKey == \E val \in NestedValueWires : Visit("value", val)

\* The first `options` field is drawn from the nested payloads, a later one
\* from the short list.
NestedOptionsKey ==
    \E val \in (IF scanned["options"] = None THEN NestedOptionsWires
                ELSE OptionsWires) :
        Visit("options", val)

\* next_key returns Ok(None): the checks and the dispatch after the loop.
EndOfMap ==
    /\ pc = "scan"
    /\ LET r == Finish(Locals)
       IN /\ result' = Some(r)
          /\ pc' = IF r.k = "Err" THEN "end_err" ELSE "value"
    /\ UNCHANGED <<locals, scanned, repeated, state, redecoded>>

Serialize ==
    /\ pc = "value"
    /\ state' = Some(serialize(result[1].val))
    /\ pc' = "wire"
    /\ UNCHANGED <<locals, scanned, repeated, result, redecoded>>

\* The emitted fields handed back to deserialize.
Deserialize ==
    /\ pc = "wire"
    /\ redecoded' = Some(visit_map(state[1].fields))
    /\ pc' = "end"
    /\ UNCHANGED <<locals, scanned, repeated, result, state>>

Next ==
    \/ NameKey
    \/ TypeKey
    \/ ValueKey
    \/ OptionsKey
    \/ FocusedKey
    \/ OtherKey
    \/ EndOfMap
    \/ Serialize
    \/ Deserialize

Spec == Init /\ [][Next]_vars

NextNested ==
    \/ NestedNameKey
    \/ NestedTypeKey
    \/ NestedValueKey
    \/ NestedOptionsKey
    \/ EndOfMap

SpecNested == Init /\ [][NextNested]_vars

NextValue ==
    \/ Serialize
    \/ Deserialize

SpecValue == InitValue /\ [][NextValue]_vars

(***************************************************************************)
(* Properties.                                                             *)
(***************************************************************************)
ScalarKinds == CommandOptionType \ SubKinds

\* The loop ran to the end of the map and deserialize returned.
Returned == pc \in {"end_err", "value", "wire", "end"} /\ scanned # [k \in Keys |-> None]

Present(key) == scanned[key] # None

Emitted == state[1].fields

EmittedKeys == {Emitted[i].key : i \in 1..Len(Emitted)}

EmittedVal(key) == Emitted[CHOOSE i \in 1..Len(Emitted) : Emitted[i].key = key].val

\* C1: a wire string given as `value` under discriminant String decodes to
\* variant String with exactly that text, whether or not the text reads as
\* an identifier.
C1_StringTextKept ==
    (/\ Returned
     /\ Present("name")
     /\ kind_opt = Some("String")
     /\ Present("value")
     /\ scanned["value"][1].t = "str")
    => /\ result[1].k = "Ok"
       /\ result[1].val.value = Variant("String", scanned["value"][1].v)

\* C2: once a recognized key has been read with a well-formed value, the
\* same key handed out again fails the decode with duplicate-field naming it.
C2_DuplicateRejected ==
    \A key \in Fields :
        (key \in repeated /\ scanned[key][1] # Null)
        => /\ pc = "loop_err"
           /\ result[1] = Err(duplicate_field(key))

\* C3: decoding what serialize emits for a value gives that value back.
C3_DecodeOfEncode ==
    pc = "end" => redecoded[1] = result[1]

\* C4 as stated: the fields emitted for a decoded map are the fields of that
\* map, with the same wire values.
C4_SameFields ==
    (Returned /\ pc \in {"wire", "end"})
    => \A key \in Keys :
          /\ Present(key) <=> key \in EmittedKeys
          /\ key \in EmittedKeys => EmittedVal(key) = scanned[key][1]

\* C4 as amended: the fields emitted for a decoded map carry the map's own
\* name and type, hold no key the map lacks, and decode to the same value
\* the map decoded to.
C4_SameValue ==
    (Returned /\ pc \in {"wire", "end"})
    => /\ EmittedKeys \subseteq {key \in Keys : Present(key)}
       /\ EmittedVal("name") = scanned["name"][1]
       /\ EmittedVal("type") = scanned["type"][1]
       /\ pc = "end" => redecoded[1] = result[1]

C4_Witness ==
    /\ Returned
    /\ pc = "end"
    /\ Present("description")
    /\ scanned["focused"] = Some([t |-> "bool", v |-> FALSE])
    /\ scanned["value"] = Some([t |-> "int", v |-> 5])
    /\ kind_opt = Some("Number")

\* C5: the field count serialize declares is the number of fields it emits,
\* and is 2, plus 1 for a scalar or a non-empty sub-grouping payload, plus 1
\* when focused; the same at each element of a sub-grouping payload.
DeclaredIsEmitted(self) ==
    /\ serialize(self).len = Len(serialize(self).fields)
    /\ serialize(self).len
         = 2 + (IF self.value.tag \in ScalarKinds \/ self.value.pay # <<>>
                THEN 1 ELSE 0)
             + (IF self.focused THEN 1 ELSE 0)

C5_DeclaredLen ==
    pc \in {"wire", "end"}
    => LET self == result[1].val
       IN /\ state[1].len = Len(state[1].fields)
          /\ DeclaredIsEmitted(self)
          /\ self.value.tag \in SubKinds
             => \A i \in 1..Len(self.value.pay) :
                   DeclaredIsEmitted(self.value.pay[i])

C5_Witness ==
    /\ pc = "wire"
    /\ result[1].val.focused
    /\ result[1].val.value.tag = "SubCommandGroup"
    /\ result[1].val.value.pay # <<>>
    /\ state[1].len = 4

\* C6: the table of discriminant against classification.
Accepted(kd) ==
    CASE kd \in IdKinds -> {"Id"}
      [] kd = "Boolean" -> {"Boolean"}
      [] kd = "Integer" -> {"Integer"}
      [] kd = "Number" -> {"Integer", "Number"}
      [] kd = "String" -> {"String", "Id"}

ExpectedShape(kd) ==
    CASE kd = "Attachment" -> "attachment id"
      [] kd = "Boolean" -> "boolean"
      [] kd = "Channel" -> "channel id"
      [] kd = "Integer" -> "integer"
      [] kd = "Mentionable" -> "mentionable id"
      [] kd = "Number" -> "number"
      [] kd = "Role" -> "role id"
      [] kd = "String" -> "string"
      [] kd = "User" -> "user id"

C6_DispatchTable ==
    (/\ Returned
     /\ Present("name")
     /\ kind_opt # None
     /\ kind_opt[1] \in ScalarKinds
     /\ value_opt # None)
    => LET kd == kind_opt[1]
           val == value_opt[1]
       IN IF val.t \in Accepted(kd)
          THEN /\ result[1].k = "Ok"
               /\ result[1].val.value.tag = kd
               /\ kd \in IdKinds \cup {"Boolean", "Integer"}
                  => result[1].val.value.pay = val.v
               /\ (kd = "Number" /\ val.t = "Number")
                  => result[1].val.value.pay = val.v
               \* An integer i is the float of i whole units.
               /\ (kd = "Number" /\ val.t = "Integer")
                  => result[1].val.value.pay = val.v + val.v
          ELSE /\ result[1].k = "Err"
               /\ result[1].val.e = "invalid_type"
               /\ result[1].val.f = ExpectedShape(kd)

C6_Witness ==
    /\ pc = "value"
    /\ kind_opt = Some("Number")
    /\ value_opt = Some([t |-> "Integer", v |-> 5])
    /\ result[1].val.value = Variant("Number", 10)

\* C7: a turn of the loop on an unrecognized key changes no local of the
\* decoder, does not end the loop and returns nothing.
C7_UnknownKeySkipped ==
    [][OtherKey => UNCHANGED <<locals, pc, result>>]_vars

C7_Witness ==
    /\ pc = "value"
    /\ "description" \in repeated
    /\ Present("value")

\* C8: without a repeated key, the decode that reaches the end of the map
\* fails with missing-field name exactly when name is absent, else with
\* missing-field type exactly when type is absent, else under a scalar
\* discriminant with missing-field value exactly when value is absent; under
\* a sub-grouping discriminant neither absence is an error.
C8_MissingFieldOrder ==
    (Returned /\ pc \in {"end_err", "value"} /\ repeated \cap Fields = {})
    => /\ result[1] = Err(missing_field("name")) <=> ~Present("name")
       /\ Present("name")
          => (result[1] = Err(missing_field("type")) <=> ~Present("type"))
       /\ (Present("name") /\ Present("type"))
          => IF scanned["type"][1].v \in ScalarKinds
             THEN result[1] = Err(missing_field("value")) <=> ~Present("value")
             ELSE result[1].k = "Ok"

C8_Witness ==
    /\ pc = "end_err"
    /\ Present("name")
    /\ Present("type")
    /\ Present("options")
    /\ ~Present("value")
    /\ result[1] = Err(missing_field("value"))

\* C9: a map without `focused` decodes to focused = FALSE; a map with
\* `focused: true` is re-encoded with the field `focused: true`; a value with
\* focused = FALSE is encoded without a `focused` field.
C9_Focused ==
    /\ (Returned /\ pc \in {"value", "wire", "end"} /\ ~Present("focused"))
       => result[1].val.focused = FALSE
    /\ (Returned /\ pc \in {"wire", "end"}
        /\ scanned["focused"] = Some([t |-> "bool", v |-> TRUE]))
       => /\ "focused" \in EmittedKeys
          /\ EmittedVal("focused") = [t |-> "bool", v |-> TRUE]
    /\ (pc \in {"wire", "end"} /\ result[1].val.focused = FALSE)
       => "focused" \notin EmittedKeys

C9_Witness ==
    /\ pc = "wire"
    /\ scanned["focused"] = Some([t |-> "bool", v |-> TRUE])
    /\ "focused" \in EmittedKeys

\* C10: under a sub-grouping discriminant the payload is the wire `options`
\* sequence, each element decoded by this decoder, in wire order; no
\* `options` field gives the empty payload; a `value` field changes nothing.
WirePayload ==
    IF Present("options")
    THEN [i \in 1..Len(scanned["options"][1].v) |->
            visit_map(scanned["options"][1].v[i]).val]
    ELSE <<>>

C10_SubGroupingPayload ==
    (/\ Returned
     /\ pc \in {"end_err", "value"}
     /\ Present("name")
     /\ Present("type")
     /\ scanned["type"][1].v \in SubKinds)
    => result[1] = Ok([focused |-> scanned["focused"] = Some([t |-> "bool", v |-> TRUE]),
                       name |-> scanned["name"][1].v,
                       value |-> Variant(scanned["type"][1].v, WirePayload)])

C10_Witness ==
    /\ pc = "value"
    /\ Present("value")
    /\ kind_opt = Some("SubCommandGroup")
    /\ Len(options) = 2
    /\ options[1].value.tag = "Integer"
    /\ options[2].value.tag = "SubCommand"
    /\ Len(options[2].value.pay) = 2
====
